---- MODULE Spec2Model ----
(***************************************************************************)
(* Model of dim's identity subsystem (dim/src/routes/auth.rs): the request *)
(* handlers, the global writer lock, and the write transactions they run   *)
(* against the users and invites tables.                                   *)
(***************************************************************************)
EXTENDS Integers, Sequences, FiniteSets, TLC

\* ------------------------------------------------------------------ bounds
MaxInvites == 2
MaxCommits == 3
MaxCommitsReuse == 5

\* ------------------------------------------------------------- value sets
\* Handler slots; the general workload is served on the two slots of Pool.
Handlers == {1, 2, 3}
Pool == {1, 2}
Usernames == {"u1", "u2"}
RaceUsernames == {"u1", "u2", "u3"}
\* Accounts are registered with InitialPasswords and change to NewPasswords;
\* a caller may try any of Passwords.
Passwords == {"p1", "p2"}
InitialPasswords == {"p1"}
NewPasswords == {"p2"}
\* Invite ids are unguessable random strings: id n is the n-th one generated.
\* BogusToken is a string that names no invite, ever.
BogusToken == MaxInvites + 1

\* Option<T>: None is the empty sequence, Some(x) the one-element sequence.
None == <<>>
Some(x) == <<x>>

OwnerRoles == <<"owner">>
UserRoles == <<"user">>

NoClaims == [user |-> "", roles |-> <<>>]

VARIABLES
    users,                \* the users table: a set of rows
    invites,              \* the invites table: a set of invite ids
    forwarded_user_auth,  \* get_global_settings().forwarded_user_auth
    writer,               \* holder of conn.writer()'s lock, 0 when free
    tx,                   \* per handler: its open write transaction's view
    pc,                   \* per handler: position in its request
    req,                  \* per handler: the request it is serving
    tokens,               \* claims of every token issued so far (jwt_generate)
    next_invite,          \* number of invite ids generated so far, plus one
    commitsLeft,          \* write transactions that may still commit (the run's bound)
    recycle,              \* whether a handler slot is reused once it has replied
    ret,                  \* per handler: its reply and what it rests on
    span,                 \* history per handler: facts at the time of its call
    everCreated,          \* history: whether any account was ever created
    consumedTokens,       \* history: supplied tokens a register has consumed
    library,              \* the library table: the ids of its rows
    media,                \* the media table: rows with id, library_id and name
    next_media_id,        \* the id the media table assigns next
    mpc,                  \* per caller of InsertableMedia: position in its call
    mreq,                 \* per caller: the value it inserts
    mtx,                  \* per caller: its attempt number, snapshot and failures
    mret                  \* per caller: what its call returned

authVars == <<users, invites, forwarded_user_auth, writer, tx, pc, req, tokens,
              next_invite, commitsLeft, recycle, ret, span, everCreated, consumedTokens>>
mediaVars == <<library, media, next_media_id, mpc, mreq, mtx, mret>>
vars == <<authVars, mediaVars>>

\* ----------------------------------------------------- storage primitives
NoTx == [open |-> FALSE, users |-> {}, invites |-> {}]

\* Stored credential of a password (opaque hash) and its verification.
hash(password) == <<"hash", password>>
verify(username, stored, candidate) == stored = hash(candidate)

\* User::get_all
User_get_all(t) == t.users

\* User::get: the rows with that username
User_get(t, username) == {u \in t.users : u.username = username}

\* User::get_one: the user, if the password verifies
User_get_one(t, username, password) ==
    {u \in User_get(t, username) : verify(u.username, u.password, password)}

\* Login::invite_token_valid
invite_token_valid(t, invite_token) ==
    /\ invite_token # None
    /\ invite_token[1] \in t.invites
    /\ \A u \in t.users : u.claimed_invite # invite_token[1]

\* Login::new_invite: inserts a fresh id, returns the transaction and the id
Login_new_invite(t, fresh) == [t EXCEPT !.invites = @ \cup {fresh}]

\* InsertableUser::insert: fails on the username unique key
InsertableUser_insert_ok(t, row) == User_get(t, row.username) = {}
InsertableUser_insert(t, row) == [t EXCEPT !.users = @ \cup {row}]

\* User::delete
User_delete(t, username) == [t EXCEPT !.users = @ \ User_get(t, username)]

\* User::set_username: UPDATE users SET username = new WHERE username = old;
\* the update fails on the username unique key
User_set_username_ok(t, old, new) ==
    old = new \/ User_get(t, old) = {} \/ User_get(t, new) = {}
User_set_username(t, old, new) ==
    [t EXCEPT !.users = {IF u.username = old THEN [u EXCEPT !.username = new] ELSE u
                         : u \in @}]

\* User::set_password
User_set_password(t, username, new_password) ==
    [t EXCEPT !.users = {IF u.username = username
                         THEN [u EXCEPT !.password = hash(new_password)] ELSE u
                         : u \in @}]

\* Login::delete_token
Login_delete_token_ok(t, token) == token \in t.invites
Login_delete_token(t, token) == [t EXCEPT !.invites = @ \ {token}]

\* auth::jwt_generate and Claims::has_role
jwt_generate(username, roles) == [user |-> username, roles |-> roles]
has_role(claims, role) == \E i \in DOMAIN claims.roles : claims.roles[i] = role

\* ------------------------------------------------------------------- Init
NoReq == [op |-> "none", username |-> "", password |-> "", invite_token |-> None,
          claims |-> NoClaims, new_password |-> "", new_username |-> "",
          token |-> BogusToken, form |-> ""]
NoPre == [users_empty |-> FALSE, tokenState |-> "none", taken |-> FALSE,
          first |-> FALSE, reuse |-> FALSE, next_invite |-> 0,
          users |-> {}, invites |-> {}]
NoHeader == [name |-> "", value |-> <<>>]
NoRet == [result |-> "none", users_empty |-> FALSE, roles |-> <<>>,
          claimed_invite |-> None, token |-> NoClaims, invite |-> None,
          rows |-> {}, list |-> <<>>, header |-> NoHeader, pre |-> NoPre,
          changed |-> FALSE]
NoSpan == [nonEmpty |-> FALSE, tokenValid |-> FALSE, nameFree |-> FALSE]

\* Nothing is being inserted into the media table.
Callers == {1, 2, 3}
NoMediaReq == [op |-> "none", library_id |-> 0, name |-> ""]
NoMediaTx == [attempt |-> 0, media |-> {}, failures |-> <<>>]
NoMediaRet == [result |-> "none", id |-> 0, inserted |-> FALSE, attempts |-> 0,
               failures |-> <<>>, pre |-> {}, post |-> {}]
NoCallers ==
    /\ mpc = [c \in Callers |-> "idle"]
    /\ mreq = [c \in Callers |-> NoMediaReq]
    /\ mtx = [c \in Callers |-> NoMediaTx]
    /\ mret = [c \in Callers |-> NoMediaRet]
MediaIdle ==
    /\ library = {}
    /\ media = {}
    /\ next_media_id = 1
    /\ NoCallers

InitHandlers ==
    /\ writer = 0
    /\ tx = [h \in Handlers |-> NoTx]
    /\ pc = [h \in Handlers |-> "idle"]
    /\ req = [h \in Handlers |-> NoReq]
    /\ ret = [h \in Handlers |-> NoRet]
    /\ span = [h \in Handlers |-> NoSpan]
    /\ MediaIdle

\* A fresh installation: no users, no invites.
Init ==
    /\ users = {}
    /\ invites = {}
    /\ forwarded_user_auth \in BOOLEAN
    /\ tokens = {}
    /\ next_invite = 1
    /\ commitsLeft = MaxCommits
    /\ recycle = TRUE
    /\ everCreated = FALSE
    /\ consumedTokens = {}
    /\ InitHandlers

\* ------------------------------------------------------- request handling
db == [open |-> FALSE, users |-> users, invites |-> invites]

\* Tokens a caller can present: none generated later than now can be guessed.
KnownTokens == {BogusToken} \cup (1..(next_invite - 1))

RegisterRequestsOf(names) ==
    [op : {"register"}, username : names, password : InitialPasswords,
     invite_token : {None} \cup {Some(i) : i \in KnownTokens},
     claims : {NoClaims}, new_password : {""}, new_username : {""},
     token : {BogusToken}, form : {""}]

RegisterRequests == RegisterRequestsOf(Usernames)

LoginRequests ==
    [op : {"login"}, username : Usernames, password : Passwords,
     invite_token : {None}, claims : {NoClaims}, new_password : {""},
     new_username : {""}, token : {BogusToken}, form : {""}]

HeadersLoginRequests ==
    [op : {"headers_login"}, username : Usernames, password : {""},
     invite_token : {None}, claims : {NoClaims}, new_password : {""},
     new_username : {""}, token : {BogusToken}, form : {""}]

InviteRequests ==
    [op : {"generate_invite"}, username : {""}, password : {""},
     invite_token : {None}, claims : tokens, new_password : {""},
     new_username : {""}, token : {BogusToken}, form : {""}]
    \cup
    [op : {"delete_invite"}, username : {""}, password : {""},
     invite_token : {None}, claims : tokens, new_password : {""},
     new_username : {""}, token : KnownTokens, form : {""}]

AccountRequests ==
    [op : {"user_change_password"}, username : {""}, password : Passwords,
     invite_token : {None}, claims : tokens, new_password : NewPasswords,
     new_username : {""}, token : {BogusToken}, form : {""}]
    \cup
    [op : {"user_delete_self"}, username : {""}, password : Passwords,
     invite_token : {None}, claims : tokens, new_password : {""},
     new_username : {""}, token : {BogusToken}, form : {""}]
    \cup
    [op : {"user_change_username"}, username : {""}, password : {""},
     invite_token : {None}, claims : tokens, new_password : {""},
     new_username : Usernames, token : {BogusToken}, form : {""}]

ListRequests ==
    [op : {"get_all_invites"}, username : {""}, password : {""},
     invite_token : {None}, claims : tokens, new_password : {""},
     new_username : {""}, token : {BogusToken}, form : {""}]

\* form: what the multipart body holds
Forms == {"broken", "no_file", "unsupported", "image"}

AvatarRequests ==
    [op : {"user_upload_avatar"}, username : {""}, password : {""},
     invite_token : {None}, claims : tokens, new_password : {""},
     new_username : {""}, token : {BogusToken}, form : Forms]

\* What a handler checks before it asks for the writer lock.
PreLockOk_MutantSettingIgnored(r) ==
    CASE r.op \in {"generate_invite", "delete_invite"} -> has_role(r.claims, "owner")
      [] r.op = "user_upload_avatar" -> r.form # "broken"
      [] OTHER -> TRUE
PreLockOk_MutantAnyRole(r) ==
    CASE r.op = "headers_login" -> forwarded_user_auth
      [] r.op = "user_upload_avatar" -> r.form # "broken"
      [] OTHER -> TRUE
PreLockOk(r) ==
    CASE r.op = "headers_login" -> forwarded_user_auth
      [] r.op \in {"generate_invite", "delete_invite"} -> has_role(r.claims, "owner")
      [] r.op = "user_upload_avatar" -> r.form # "broken"
      [] OTHER -> TRUE

\* Requests that reach conn.writer().lock_owned()
WriteRequests ==
    {r \in RegisterRequests \cup HeadersLoginRequests \cup InviteRequests
           \cup AccountRequests \cup AvatarRequests : PreLockOk(r)}

\* What the tables said about a request at the time it was made.
SpanOf(r) == [nonEmpty |-> users # {},
              tokenValid |-> invite_token_valid(db, r.invite_token),
              nameFree |-> User_get(db, r.username) = {}]

\* A request r arrives at a free handler and runs up to the writer lock.
Arrive(h, r) ==
    /\ pc[h] = "idle"
    /\ req' = [req EXCEPT ![h] = r]
    /\ span' = [span EXCEPT ![h] = IF recycle THEN NoSpan ELSE SpanOf(r)]
    /\ pc' = [pc EXCEPT ![h] = "called"]
    /\ UNCHANGED <<users, invites, forwarded_user_auth, writer, tx, tokens,
                   next_invite, commitsLeft, recycle, ret, everCreated, consumedTokens>>
    /\ UNCHANGED mediaVars

Call(h) == \E r \in WriteRequests : Arrive(h, r)

\* What the handler's view of the tables says about its request, just before
\* it acts on it.
TokenState(t, invite_token) ==
    IF invite_token = None THEN "none"
    ELSE IF invite_token[1] \notin t.invites THEN "unknown"
    ELSE IF \E u \in t.users : u.claimed_invite = invite_token[1] THEN "claimed"
    ELSE "open"

PreOf(h, rq) ==
    LET t == IF tx[h].open THEN tx[h] ELSE db
        name == IF rq.op = "user_change_username" THEN rq.new_username ELSE rq.username
    IN  [users_empty |-> t.users = {},
         tokenState |-> TokenState(t, rq.invite_token),
         taken |-> \E u \in t.users : u.username = name,
         first |-> ~everCreated,
         reuse |-> /\ rq.invite_token # None
                   /\ rq.invite_token[1] \in consumedTokens,
         next_invite |-> next_invite,
         users |-> users,
         invites |-> invites]

\* The handler's `lock` guard goes out of scope when it returns.
drop_lock_MutantLeaked(h) == writer
drop_lock(h) == IF writer = h THEN 0 ELSE writer

\* The handler returns r: its transaction (if any) is committed or dropped, and
\* the writer lock guard it owns is dropped.  r.roles is non-empty exactly when
\* the request created an account.  The reply records what the handler saw
\* (pre) and whether the tables changed.
Finish(h, rq, t, committed, r) ==
    /\ users' = IF committed THEN t.users ELSE users
    /\ invites' = IF committed THEN t.invites ELSE invites
    /\ writer' = drop_lock(h)
    /\ tx' = [tx EXCEPT ![h] = NoTx]
    /\ pc' = [pc EXCEPT ![h] = "done"]
    /\ req' = [req EXCEPT ![h] = rq]
    /\ ret' = [ret EXCEPT ![h] =
                 [r EXCEPT !.pre = PreOf(h, rq),
                           !.changed = committed /\
                                       (t.users # users \/ t.invites # invites)]]
    /\ everCreated' = (everCreated \/ (committed /\ r.roles # <<>>))
    /\ consumedTokens' =
         IF committed /\ rq.op = "register" /\ ~r.users_empty /\ r.claimed_invite # None
         THEN consumedTokens \cup {r.claimed_invite[1]} ELSE consumedTokens
    /\ commitsLeft' = IF committed THEN commitsLeft - 1 ELSE commitsLeft
    /\ UNCHANGED <<forwarded_user_auth, recycle, span>>
    /\ UNCHANGED mediaVars

Err(e) == [NoRet EXCEPT !.result = e]

\* The reply has been sent: the handler slot is free again.
Respond(h) ==
    /\ recycle
    /\ pc[h] = "done"
    /\ pc' = [pc EXCEPT ![h] = "idle"]
    /\ req' = [req EXCEPT ![h] = NoReq]
    /\ ret' = [ret EXCEPT ![h] = NoRet]
    /\ UNCHANGED <<users, invites, forwarded_user_auth, writer, tx, tokens,
                   next_invite, commitsLeft, recycle, span, everCreated, consumedTokens>>
    /\ UNCHANGED mediaVars

\* Sending a reply touches nothing shared, so it is scheduled first.
Quiet == recycle => \A g \in Handlers : pc[g] # "done"

\* ------------------------------------------------------------ writer lock
\* conn.writer().lock_owned(): the lock can be taken when nobody holds it
lock_owned_MutantNoExclusion(h) == TRUE
lock_owned(h) == writer = 0

\* Invite ids are bounded: a transaction that will generate one starts only
\* while an id is left.
NeedsFreshInvite(r) ==
    CASE r.op = "register" -> User_get_all(db) = {}
      [] r.op = "headers_login" -> User_get(db, r.username) = {}
      [] r.op = "generate_invite" -> TRUE
      [] OTHER -> FALSE

\* conn.writer().lock_owned().await; database::write_tx(&mut lock).await
WriteTx(h) ==
    /\ pc[h] = "called"
    /\ NeedsFreshInvite(req[h]) => next_invite <= MaxInvites
    /\ commitsLeft > 0
    /\ lock_owned(h)
    /\ writer' = h
    /\ tx' = [tx EXCEPT ![h] = [open |-> TRUE, users |-> users, invites |-> invites]]
    /\ pc' = [pc EXCEPT ![h] = "open"]
    /\ UNCHANGED <<users, invites, forwarded_user_auth, req, tokens, next_invite,
                   commitsLeft, recycle, ret, span, everCreated, consumedTokens>>
    /\ UNCHANGED mediaVars

\* ---------------------------------------------------------------- register
register_rejects_MutantNoValidCheck(users_empty, invite_token, t) ==
    ~users_empty /\ invite_token = None
register_rejects(users_empty, invite_token, t) ==
    ~users_empty /\ (invite_token = None \/ ~invite_token_valid(t, invite_token))

register_roles_MutantAlwaysOwner(users_empty) == OwnerRoles
register_roles(users_empty) == IF ~users_empty THEN UserRoles ELSE OwnerRoles

register_claimed_invite_MutantUseSupplied(users_empty, fresh, invite_token) ==
    IF users_empty /\ invite_token = None THEN Some(fresh) ELSE invite_token
register_claimed_invite(users_empty, fresh, invite_token) ==
    IF users_empty THEN Some(fresh) ELSE invite_token

Register(h) ==
    /\ pc[h] = "open"
    /\ req[h].op = "register"
    /\ LET new_user == req[h]
           users_empty == User_get_all(tx[h]) = {}
           rejected == register_rejects(users_empty, new_user.invite_token, tx[h])
           roles == register_roles(users_empty)
           t1 == IF users_empty THEN Login_new_invite(tx[h], next_invite) ELSE tx[h]
           claimed_invite == register_claimed_invite(users_empty, next_invite,
                                                     new_user.invite_token)
           row == [username |-> new_user.username,
                   password |-> hash(new_user.password),
                   roles |-> roles,
                   claimed_invite |-> claimed_invite[1]]
           ok == /\ ~rejected
                 /\ claimed_invite # None
                 /\ InsertableUser_insert_ok(t1, row)
           out == [NoRet EXCEPT !.users_empty = users_empty]
       IN  /\ next_invite' = IF users_empty /\ ~rejected
                             THEN next_invite + 1 ELSE next_invite
           /\ IF ok
              THEN Finish(h, req[h], InsertableUser_insert(t1, row), TRUE,
                          [out EXCEPT !.result = "Ok", !.roles = roles,
                                      !.claimed_invite = claimed_invite])
              ELSE Finish(h, req[h], tx[h], FALSE,
                          [out EXCEPT !.result =
                             IF rejected \/ claimed_invite = None
                             THEN "NoToken" ELSE "DatabaseError"])
    /\ UNCHANGED tokens

\* ------------------------------------------------------------ headers_login
\* the forwarded-auth setting is off
HeadersLoginDisabled(h) ==
    /\ pc[h] = "idle"
    /\ ~forwarded_user_auth
    /\ \E rq \in HeadersLoginRequests : Finish(h, rq, NoTx, FALSE, Err("ForwardAuthDisabled"))
    /\ UNCHANGED <<tokens, next_invite>>

headers_login_roles(users_empty) == UserRoles

\* let existing_user = User::get(&mut tx, username.as_str()).await
headers_login_existing_user_MutantNeverFound(t, username) == {}
headers_login_existing_user(t, username) == User_get(t, username)

\* reply::with_header(redirect::found("/"), "Set-Cookie", format!("token={}", jwt))
cookie_header(jwt) == [name |-> "Set-Cookie", value |-> <<"token", jwt>>]
\* reply::with_header(redirect::found("/"), "token", jwt)
token_header(jwt) == [name |-> "token", value |-> <<jwt>>]

HeadersLogin(h) ==
    /\ pc[h] = "open"
    /\ req[h].op = "headers_login"
    /\ LET username == req[h].username
           existing_user == headers_login_existing_user(tx[h], username)
           users_empty == User_get_all(tx[h]) = {}
           roles == headers_login_roles(users_empty)
           claimed_invite == next_invite
           t1 == Login_new_invite(tx[h], claimed_invite)
           row == [username |-> username,
                   password |-> hash("random"),
                   roles |-> roles,
                   claimed_invite |-> claimed_invite]
           out == [NoRet EXCEPT !.users_empty = users_empty]
       IN  IF existing_user # {}
           THEN \E user \in existing_user :
                /\ Finish(h, req[h], tx[h], FALSE,
                          [out EXCEPT !.result = "Ok",
                                      !.token = jwt_generate(user.username, user.roles),
                                      !.header = cookie_header(
                                          jwt_generate(user.username, user.roles))])
                /\ tokens' = tokens \cup {jwt_generate(user.username, user.roles)}
                /\ UNCHANGED next_invite
           ELSE IF ~InsertableUser_insert_ok(t1, row)
           THEN /\ Finish(h, req[h], t1, FALSE, [out EXCEPT !.result = "DatabaseError"])
                /\ UNCHANGED <<tokens, next_invite>>
           ELSE /\ Finish(h, req[h], InsertableUser_insert(t1, row), TRUE,
                          [out EXCEPT !.result = "Ok", !.roles = roles,
                                      !.claimed_invite = Some(claimed_invite),
                                      !.token = jwt_generate(username, roles),
                                      !.header = token_header(jwt_generate(username, roles))])
                /\ tokens' = tokens \cup {jwt_generate(username, roles)}
                /\ next_invite' = next_invite + 1

\* ---------------------------------------------------------------- invites
\* generate_invite and delete_invite refuse claims without the owner role
Unauthorized(h) ==
    /\ pc[h] = "idle"
    /\ \E rq \in InviteRequests :
        /\ ~has_role(rq.claims, "owner")
        /\ Finish(h, rq, NoTx, FALSE, Err("Unauthorized"))
    /\ UNCHANGED <<tokens, next_invite>>

\* get_all_invites: the unclaimed invites, then the claimed ones with their user
invite_rows(t) ==
    {[id |-> i, claimed_by |-> None] :
        i \in {j \in t.invites : \A u \in t.users : u.claimed_invite # j}}
    \cup
    {[id |-> u.claimed_invite, claimed_by |-> Some(u.username)] :
        u \in {v \in t.users : v.claimed_invite \in t.invites}}

\* The rows of S in every order, each as a sequence.
Orders(S) ==
    {f \in [1..Cardinality(S) -> S] : \A i, j \in DOMAIN f : f[i] = f[j] => i = j}

\* An invite's date_added: invites are generated one after the other, so a
\* later one has the greater id.
created(row) == row.id

\* The first query, ORDER BY created ASC
unclaimed_rows(t) ==
    CHOOSE f \in Orders({r \in invite_rows(t) : r.claimed_by = None}) :
        \A i, j \in DOMAIN f : i < j => created(f[i]) < created(f[j])

\* The second query, an INNER JOIN without ORDER BY: the storage returns its
\* rows in an order of its choosing
claimed_rows(t) == Orders({r \in invite_rows(t) : r.claimed_by # None})

GetAllInvites(h) ==
    /\ pc[h] = "idle"
    /\ \E rq \in ListRequests :
        IF has_role(rq.claims, "owner")
        THEN \E tail \in claimed_rows(db) :
               Finish(h, rq, NoTx, FALSE,
                      [NoRet EXCEPT !.result = "Ok", !.rows = invite_rows(db),
                                    !.list = unclaimed_rows(db) \o tail])
        ELSE Finish(h, rq, NoTx, FALSE, Err("Unauthorized"))
    /\ UNCHANGED <<tokens, next_invite>>

GenerateInvite(h) ==
    /\ pc[h] = "open"
    /\ req[h].op = "generate_invite"
    /\ Finish(h, req[h], Login_new_invite(tx[h], next_invite), TRUE,
              [NoRet EXCEPT !.result = "Ok", !.invite = Some(next_invite)])
    /\ next_invite' = next_invite + 1
    /\ UNCHANGED tokens

\* Login::delete_token(&mut tx, token).await?: its error ends the handler
\* before tx.commit()
delete_invite_commits_MutantErrorIgnored(t, token) == TRUE
delete_invite_commits(t, token) == Login_delete_token_ok(t, token)

DeleteInvite(h) ==
    /\ pc[h] = "open"
    /\ req[h].op = "delete_invite"
    /\ IF delete_invite_commits(tx[h], req[h].token)
       THEN Finish(h, req[h], Login_delete_token(tx[h], req[h].token), TRUE, Err("Ok"))
       ELSE Finish(h, req[h], tx[h], FALSE, Err("NotFound"))
    /\ UNCHANGED <<tokens, next_invite>>

\* ------------------------------------------------------- account mutation
\* User::get_one(&mut tx, user.0.claims.get_user(), old_password)
user_change_password_user_MutantNoVerify(t, username, old_password) ==
    User_get(t, username)
user_change_password_user(t, username, old_password) ==
    User_get_one(t, username, old_password)

UserChangePassword(h) ==
    /\ pc[h] = "open"
    /\ req[h].op = "user_change_password"
    /\ LET username == req[h].claims.user
       IN  IF user_change_password_user(tx[h], username, req[h].password) = {}
           THEN Finish(h, req[h], tx[h], FALSE, Err("InvalidCredentials"))
           ELSE Finish(h, req[h], User_set_password(tx[h], username, req[h].new_password),
                       TRUE, Err("Ok"))
    /\ UNCHANGED <<tokens, next_invite>>

\* User::get_one(&mut tx, user.0.claims.get_user(), password)
user_delete_self_user_MutantNoVerify(t, username, password) == User_get(t, username)
user_delete_self_user(t, username, password) == User_get_one(t, username, password)

UserDeleteSelf(h) ==
    /\ pc[h] = "open"
    /\ req[h].op = "user_delete_self"
    /\ LET username == req[h].claims.user
       IN  IF user_delete_self_user(tx[h], username, req[h].password) = {}
           THEN Finish(h, req[h], tx[h], FALSE, Err("InvalidCredentials"))
           ELSE Finish(h, req[h], User_delete(tx[h], username), TRUE, Err("Ok"))
    /\ UNCHANGED <<tokens, next_invite>>

user_change_username_taken_MutantNoCheck(t, new_username) == FALSE
user_change_username_taken(t, new_username) == User_get(t, new_username) # {}

UserChangeUsername(h) ==
    /\ pc[h] = "open"
    /\ req[h].op = "user_change_username"
    /\ IF user_change_username_taken(tx[h], req[h].new_username)
       THEN Finish(h, req[h], tx[h], FALSE, Err("UsernameNotAvailable"))
       ELSE IF ~User_set_username_ok(tx[h], req[h].claims.user, req[h].new_username)
       THEN Finish(h, req[h], tx[h], FALSE, Err("DatabaseError"))
       ELSE Finish(h, req[h], User_set_username(tx[h], req[h].claims.user,
                                                req[h].new_username), TRUE, Err("Ok"))
    /\ UNCHANGED <<tokens, next_invite>>

\* form.try_collect() fails before the lock is asked for
UploadBroken(h) ==
    /\ pc[h] = "idle"
    /\ \E rq \in AvatarRequests :
        /\ rq.form = "broken"
        /\ Finish(h, rq, NoTx, FALSE, Err("UploadFailed"))
    /\ UNCHANGED <<tokens, next_invite>>

\* process_part and User::set_picture: the asset row and the picture column
\* are outside the users' identity columns modelled here
UserUploadAvatar(h) ==
    /\ pc[h] = "open"
    /\ req[h].op = "user_upload_avatar"
    /\ CASE req[h].form = "no_file" ->
               Finish(h, req[h], tx[h], FALSE, Err("UploadFailed"))
         [] req[h].form = "unsupported" ->
               Finish(h, req[h], tx[h], FALSE, Err("UnsupportedFile"))
         [] OTHER -> Finish(h, req[h], tx[h], TRUE, Err("Ok"))
    /\ UNCHANGED <<tokens, next_invite>>

\* ------------------------------------------------------------------- login
\* User::get, then verify(user.username, user.password, new_login.password)
login_user_MutantNoVerify(t, username, password) == User_get(t, username)
login_user(t, username, password) ==
    {user \in User_get(t, username) : verify(user.username, user.password, password)}

Login(h) ==
    /\ pc[h] = "idle"
    /\ \E rq \in LoginRequests :
       LET found == login_user(db, rq.username, rq.password)
       IN  IF found = {}
           THEN /\ Finish(h, rq, NoTx, FALSE, Err("InvalidCredentials"))
                /\ UNCHANGED tokens
           ELSE \E user \in found :
                /\ Finish(h, rq, NoTx, FALSE,
                          [NoRet EXCEPT !.result = "Ok",
                                        !.token = jwt_generate(user.username, user.roles)])
                /\ tokens' = tokens \cup {jwt_generate(user.username, user.roles)}
    /\ UNCHANGED next_invite

Next ==
    \E h \in Pool :
        \/ Respond(h)
        \/ Quiet /\ Call(h)
        \/ Quiet /\ WriteTx(h)
        \/ Quiet /\ Register(h)
        \/ Quiet /\ HeadersLoginDisabled(h)
        \/ Quiet /\ HeadersLogin(h)
        \/ Quiet /\ Unauthorized(h)
        \/ Quiet /\ GenerateInvite(h)
        \/ Quiet /\ GetAllInvites(h)
        \/ Quiet /\ DeleteInvite(h)
        \/ Quiet /\ UserChangePassword(h)
        \/ Quiet /\ UserDeleteSelf(h)
        \/ Quiet /\ UserChangeUsername(h)
        \/ Quiet /\ UploadBroken(h)
        \/ Quiet /\ UserUploadAvatar(h)
        \/ Quiet /\ Login(h)

Spec == Init /\ [][Next]_vars

\* The invite workload: registrations, invite generation and self-deletion
\* only, forwarded auth off, over a longer run.
InitReuse ==
    /\ users = {}
    /\ invites = {}
    /\ forwarded_user_auth = FALSE
    /\ tokens = {}
    /\ next_invite = 1
    /\ commitsLeft = MaxCommitsReuse
    /\ recycle = TRUE
    /\ everCreated = FALSE
    /\ consumedTokens = {}
    /\ InitHandlers

ReuseRequests ==
    {r \in WriteRequests : r.op \in {"register", "generate_invite", "user_delete_self"}
                           /\ r.password \in InitialPasswords \cup {""}}

CallReuse(h) == \E r \in ReuseRequests : Arrive(h, r)

NextReuse ==
    \E h \in Pool :
        \/ Respond(h)
        \/ Quiet /\ CallReuse(h)
        \/ Quiet /\ WriteTx(h)
        \/ Quiet /\ Register(h)
        \/ Quiet /\ GenerateInvite(h)
        \/ Quiet /\ UserDeleteSelf(h)
        \/ Quiet /\ Login(h)

SpecReuse == InitReuse /\ [][NextReuse]_vars

\* The race workload: every handler slot serves one register request and
\* keeps its reply.  A run starts from a fresh installation, from an
\* installation whose only account (the owner "u1") has deleted itself, or from
\* one whose owner has generated an invite.
OwnerRow == [username |-> "u1", password |-> hash("p1"), roles |-> OwnerRoles,
             claimed_invite |-> 1]

RaceTables ==
    {[users |-> {}, invites |-> {}, next_invite |-> 1, tokens |-> {}],
     [users |-> {}, invites |-> {1}, next_invite |-> 2,
      tokens |-> {jwt_generate("u1", OwnerRoles)}],
     [users |-> {OwnerRow}, invites |-> {1, 2}, next_invite |-> 3,
      tokens |-> {jwt_generate("u1", OwnerRoles)}]}

InitRace ==
    /\ \E d \in RaceTables :
        /\ users = d.users
        /\ invites = d.invites
        /\ next_invite = d.next_invite
        /\ tokens = d.tokens
        /\ everCreated = (d.next_invite > 1)
        /\ consumedTokens = {}
    /\ forwarded_user_auth = FALSE
    /\ commitsLeft = Cardinality(Handlers)
    /\ recycle = FALSE
    /\ InitHandlers

CallRace(h) == \E r \in RegisterRequestsOf(RaceUsernames) : Arrive(h, r)

NextRace == \E h \in Handlers : CallRace(h) \/ WriteTx(h) \/ Register(h)

SpecRace == InitRace /\ [][NextRace]_vars

\* The faulty-storage workload: the general workload, and the insert of a
\* user may fail in the storage.
\* tx.commit() is reached only when every step before it returned Ok
commit_reached_MutantCommitOnError(ok) == TRUE
commit_reached(ok) == ok

\* InsertableUser { .. }.insert(&mut tx).await? fails in register or in
\* headers_login: the handler returns with its transaction as it is then.
\* The invite id synthesized in that transaction was shown to nobody: it
\* counts as not generated.
InsertError(h) ==
    /\ pc[h] = "open"
    /\ req[h].op \in {"register", "headers_login"}
    /\ LET users_empty == User_get_all(tx[h]) = {}
           reaches_insert ==
               IF req[h].op = "register"
               THEN ~register_rejects(users_empty, req[h].invite_token, tx[h])
               ELSE headers_login_existing_user(tx[h], req[h].username) = {}
           synthesizes == req[h].op = "headers_login" \/ users_empty
           t1 == IF synthesizes THEN Login_new_invite(tx[h], next_invite) ELSE tx[h]
       IN  /\ reaches_insert
           /\ Finish(h, req[h], t1, commit_reached(FALSE),
                     [NoRet EXCEPT !.result = "DatabaseError",
                                   !.users_empty = users_empty])
    /\ UNCHANGED <<tokens, next_invite>>

NextFault == Next \/ \E h \in Pool : Quiet /\ InsertError(h)

SpecFault == Init /\ [][NextFault]_vars

\* The forwarded-auth race workload: every handler slot serves one
\* headers_login request and keeps its reply; the setting is on.
InitForward ==
    /\ \E d \in RaceTables :
        /\ users = d.users
        /\ invites = d.invites
        /\ next_invite = d.next_invite
        /\ tokens = d.tokens
        /\ everCreated = (d.next_invite > 1)
        /\ consumedTokens = {}
    /\ forwarded_user_auth = TRUE
    /\ commitsLeft = Cardinality(Handlers)
    /\ recycle = FALSE
    /\ InitHandlers

CallForward(h) == \E r \in HeadersLoginRequests : Arrive(h, r)

NextForward == \E h \in Handlers : CallForward(h) \/ WriteTx(h) \/ HeadersLogin(h)

SpecForward == InitForward /\ [][NextForward]_vars

\* The fair workload: registrations, forwarded logins, self-deletions and
\* renames with the forwarded-auth setting on.  A handler that can run does
\* run (the runtime schedules every ready task), and conn.writer() is a fair
\* (first-in first-out) mutex: a handler that asks for it is not passed over
\* forever.
InitLive == Init /\ forwarded_user_auth

LiveRequests ==
    {r \in WriteRequests : r.op \in {"register", "headers_login", "user_delete_self",
                                     "user_change_username"}}

CallLive(h) == \E r \in LiveRequests : Arrive(h, r)

LiveBody(h) ==
    Register(h) \/ HeadersLogin(h) \/ UserDeleteSelf(h) \/ UserChangeUsername(h)

NextLive ==
    \E h \in Pool :
        \/ Respond(h)
        \/ Quiet /\ CallLive(h)
        \/ Quiet /\ WriteTx(h)
        \/ Quiet /\ LiveBody(h)

Fairness ==
    \A h \in Pool :
        /\ WF_vars(Respond(h))
        /\ SF_vars(Quiet /\ WriteTx(h))
        /\ SF_vars(Quiet /\ LiveBody(h))

SpecLive == InitLive /\ [][NextLive]_vars /\ Fairness

\* The stale-token workload: the owner u1 has registered and logged in, so a
\* token for u1 is out; no further token is issued.  Accounts are deleted,
\* renamed and registered, and the token is used on the self-mutating routes.
InitStale ==
    /\ users = {OwnerRow}
    /\ invites = {1}
    /\ next_invite = 2
    /\ tokens = {jwt_generate("u1", OwnerRoles)}
    /\ everCreated = TRUE
    /\ consumedTokens = {}
    /\ forwarded_user_auth = FALSE
    /\ commitsLeft = Cardinality(Handlers)
    /\ recycle = FALSE
    /\ InitHandlers

CallStale(h) == \E r \in RegisterRequests \cup AccountRequests : Arrive(h, r)

NextStale ==
    \E h \in Handlers :
        \/ CallStale(h)
        \/ WriteTx(h)
        \/ Register(h)
        \/ UserChangePassword(h)
        \/ UserDeleteSelf(h)
        \/ UserChangeUsername(h)

SpecStale == InitStale /\ [][NextStale]_vars

\* ================================================================== media
\* InsertableMedia::insert and insert_blind (database/src/media.rs), each run
\* by a caller of its own against the shared media table.
Names == {"a", "b"}
Libraries == {1, 2}
MediaRow(i, r) == [id |-> i, library_id |-> r.library_id, name |-> r.name]

\* retry_while!: how many times the block is run before the failure is handed on
MaxAttempts == 3

\* library.filter(id.eq(self.library_id)).first_async::<Library>(conn).await?
library_found(library_id) == library_id \in library

\* media::table.filter(media::name.eq(self.name.clone())).select(media::id)
insert_select_MutantNeverFound(t, name) == {}
insert_select(t, name) == {m.id : m \in {x \in t : x.name = name}}

\* SET TRANSACTION ISOLATION LEVEL SERIALIZABLE: the transaction fails when a row
\* its select would have returned was committed after its snapshot was taken
serializable_conflict_MutantReadCommitted(snapshot, t, name) == FALSE
serializable_conflict(snapshot, t, name) == \E m \in t \ snapshot : m.name = name

\* retry_while!(DatabaseErrorKind::SerializationFailure, ..): the kind retried
retry_on_MutantAnyKind(kind) == TRUE
retry_on(kind) == kind = "SerializationFailure"

MediaReturn(c, r) ==
    /\ mpc' = [mpc EXCEPT ![c] = "done"]
    /\ mret' = [mret EXCEPT ![c] = r]

MediaOk(c, i, inserted, post) ==
    [NoMediaRet EXCEPT !.result = "Ok", !.id = i, !.inserted = inserted,
                       !.attempts = mtx'[c].attempt, !.failures = mtx[c].failures,
                       !.pre = media, !.post = post]

\* The library lookup that opens insert and insert_blind; a missing library is
\* returned as an error before anything is tried.
MediaArrive(c, r) ==
    /\ mpc[c] = "idle"
    /\ mreq' = [mreq EXCEPT ![c] = r]
    /\ IF library_found(r.library_id)
       THEN /\ mpc' = [mpc EXCEPT ![c] = "begin"]
            /\ UNCHANGED mret
       ELSE MediaReturn(c, [NoMediaRet EXCEPT !.result = "NotFound",
                                              !.pre = media, !.post = media])
    /\ UNCHANGED <<library, media, next_media_id, mtx>>
    /\ UNCHANGED authVars

\* retry_while!: the block failed with `kind`.  A failure of the retried kind
\* runs the block again while attempts are left, and is then handed on as a
\* write conflict; any other failure is returned as it is.
retry_while(c, kind) ==
    LET failures == Append(mtx[c].failures, kind)
    IN  /\ IF retry_on(kind) /\ mtx[c].attempt < MaxAttempts
           THEN /\ mpc' = [mpc EXCEPT ![c] = "begin"]
                /\ mtx' = [mtx EXCEPT ![c].failures = failures]
                /\ UNCHANGED mret
           ELSE /\ MediaReturn(c, [NoMediaRet EXCEPT
                       !.result = IF retry_on(kind) THEN "WriteConflict"
                                  ELSE "DatabaseError",
                       !.attempts = mtx[c].attempt, !.failures = failures,
                       !.pre = media, !.post = media])
                /\ UNCHANGED mtx
        /\ UNCHANGED <<library, media, next_media_id, mreq>>
        /\ UNCHANGED authVars

\* insert: conn.transaction starts and the select by name runs; a row found
\* is returned at once.
InsertSelect(c) ==
    /\ mpc[c] = "begin"
    /\ mreq[c].op = "insert"
    /\ mtx' = [mtx EXCEPT ![c].attempt = @ + 1, ![c].media = media]
    /\ LET found == insert_select(media, mreq[c].name)
       IN  IF found # {}
           THEN \E i \in found : MediaReturn(c, MediaOk(c, i, FALSE, media))
           ELSE /\ mpc' = [mpc EXCEPT ![c] = "insert"]
                /\ UNCHANGED mret
    /\ UNCHANGED <<library, media, next_media_id, mreq>>
    /\ UNCHANGED authVars

\* insert: nothing was found, so the row is inserted and the transaction
\* commits, unless it conflicts with one that committed meanwhile.
InsertRow(c) ==
    /\ mpc[c] = "insert"
    /\ mreq[c].op = "insert"
    /\ IF serializable_conflict(mtx[c].media, media, mreq[c].name)
       THEN retry_while(c, "SerializationFailure")
       ELSE LET row == MediaRow(next_media_id, mreq[c])
            IN  /\ media' = media \cup {row}
                /\ next_media_id' = next_media_id + 1
                /\ UNCHANGED <<library, mreq, mtx>>
                /\ MediaReturn(c, MediaOk(c, row.id, TRUE, media \cup {row}))
                /\ UNCHANGED authVars

\* insert_blind: conn.transaction starts; there is no select
BlindBegin(c) ==
    /\ mpc[c] = "begin"
    /\ mreq[c].op = "insert_blind"
    /\ mtx' = [mtx EXCEPT ![c].attempt = @ + 1, ![c].media = media]
    /\ mpc' = [mpc EXCEPT ![c] = "insert"]
    /\ UNCHANGED <<library, media, next_media_id, mreq, mret>>
    /\ UNCHANGED authVars

\* insert_blind: the row is inserted whatever the table holds
InsertBlind(c) ==
    /\ mpc[c] = "insert"
    /\ mreq[c].op = "insert_blind"
    /\ LET row == MediaRow(next_media_id, mreq[c])
       IN  /\ media' = media \cup {row}
           /\ next_media_id' = next_media_id + 1
           /\ UNCHANGED <<library, mreq, mtx>>
           /\ MediaReturn(c, MediaOk(c, row.id, TRUE, media \cup {row}))
    /\ UNCHANGED authVars

\* The tables a run of inserts starts from.
InitMediaTables ==
    /\ library \in {{1}, {1, 2}}
    /\ media \in {{}, {[id |-> 1, library_id |-> 1, name |-> "a"]}}
    /\ next_media_id = Cardinality(media) + 1

\* The accounts side is at rest while media is inserted.
AuthIdle ==
    /\ users = {}
    /\ invites = {}
    /\ forwarded_user_auth = FALSE
    /\ writer = 0
    /\ tx = [h \in Handlers |-> NoTx]
    /\ pc = [h \in Handlers |-> "idle"]
    /\ req = [h \in Handlers |-> NoReq]
    /\ ret = [h \in Handlers |-> NoRet]
    /\ span = [h \in Handlers |-> NoSpan]
    /\ tokens = {}
    /\ next_invite = 1
    /\ commitsLeft = 0
    /\ recycle = FALSE
    /\ everCreated = FALSE
    /\ consumedTokens = {}

InitMedia == AuthIdle /\ InitMediaTables /\ NoCallers

InsertRequests == [op : {"insert"}, library_id : Libraries, name : Names]

InsertCall(c) == \E r \in InsertRequests : MediaArrive(c, r)

\* Concurrent callers of insert over a storage that fails a transaction only
\* for a real conflict.
NextMedia ==
    \E c \in Callers :
        \/ InsertCall(c)
        \/ InsertSelect(c)
        \/ InsertRow(c)

SpecMedia == InitMedia /\ [][NextMedia]_vars

\* Callers of insert and insert_blind over a storage that may fail any attempt
\* with a serialization failure or with an error of another kind.
ErrorKinds == {"SerializationFailure", "UniqueViolation"}
BlindRequests == [op : {"insert_blind"}, library_id : Libraries, name : Names]

MediaCall(c) == \E r \in InsertRequests \cup BlindRequests : MediaArrive(c, r)

\* The insert statement of an attempt fails.
StorageError(c) ==
    /\ mpc[c] = "insert"
    /\ \E kind \in ErrorKinds : retry_while(c, kind)

MediaStep(c) ==
    \/ InsertSelect(c)
    \/ InsertRow(c)
    \/ BlindBegin(c)
    \/ InsertBlind(c)
    \/ StorageError(c)

NextMediaFault ==
    \E c \in Pool :
        \/ MediaCall(c)
        \/ MediaStep(c)

SpecMediaFault ==
    InitMedia /\ [][NextMediaFault]_vars /\ \A c \in Pool : WF_vars(MediaStep(c))


\* ================================================================ properties
\* A handler that has replied, and what it was asked.
Replied(h, op) == pc[h] = "done" /\ req[h].op = op

\* The reply of h reports an account it created.
Created(h) == pc[h] = "done" /\ ret[h].result = "Ok" /\ ret[h].roles # <<>>

RowOf(h) == [username |-> req[h].username,
             password |-> hash(req[h].password),
             roles |-> ret[h].roles,
             claimed_invite |-> ret[h].claimed_invite[1]]

\* C1: a register that finds no users succeeds whether or not it carries an
\* invite token; the account it creates has the role set {owner} and claims an
\* invite generated by this very call, never the token supplied.
C1_BootstrapRegister ==
    \A h \in Handlers :
        Replied(h, "register") /\ ret[h].pre.users_empty =>
            /\ ret[h].result = "Ok"
            /\ ret[h].roles = OwnerRoles
            /\ ret[h].claimed_invite # None
            /\ ret[h].claimed_invite[1] >= ret[h].pre.next_invite
            /\ ret[h].claimed_invite[1] < next_invite
            /\ ret[h].claimed_invite # req[h].invite_token
            /\ RowOf(h) \in users
            /\ ret[h].claimed_invite[1] \in invites

\* a bootstrap register that supplied an invite token which exists and is
\* unclaimed, and succeeded
C1_Witness ==
    \E h \in Handlers :
        /\ Replied(h, "register")
        /\ ret[h].pre.users_empty
        /\ ret[h].pre.tokenState = "open"
        /\ ret[h].result = "Ok"

\* C2: while at least one user exists, a register with no token, an unknown
\* token or a token that a user has claimed fails with NoToken and leaves the
\* users and the invites as they were.
C2_GatedRegisterRejects ==
    \A h \in Handlers :
        ( /\ Replied(h, "register")
          /\ ~ret[h].pre.users_empty
          /\ ret[h].pre.tokenState \in {"none", "unknown", "claimed"} ) =>
            /\ ret[h].result = "NoToken"
            /\ ~ret[h].changed

\* a register refused for a token that exists but is claimed by a user
C2_Witness ==
    \E h \in Handlers :
        /\ Replied(h, "register")
        /\ ~ret[h].pre.users_empty
        /\ ret[h].pre.tokenState = "claimed"
        /\ ret[h].result = "NoToken"

\* Two registers that were made while the same token was valid and unclaimed,
\* for different free usernames, and no third request has changed the tables.
RacingPair(h1, h2) ==
    /\ h1 # h2
    /\ Replied(h1, "register") /\ Replied(h2, "register")
    /\ req[h1].invite_token # None
    /\ req[h1].invite_token = req[h2].invite_token
    /\ req[h1].username # req[h2].username
    /\ \A h \in {h1, h2} : span[h].nonEmpty /\ span[h].tokenValid /\ span[h].nameFree
    /\ \A h \in Handlers \ {h1, h2} : ~(pc[h] = "done" /\ ret[h].changed)

\* C3: of two concurrent registers with the same valid unclaimed token and
\* different usernames, exactly one succeeds and the other fails with NoToken.
C3_RaceOnToken ==
    \A h1, h2 \in Handlers :
        RacingPair(h1, h2) =>
            \/ ret[h1].result = "Ok" /\ ret[h2].result = "NoToken"
            \/ ret[h2].result = "Ok" /\ ret[h1].result = "NoToken"

\* a racing pair has been decided
C3_Witness ==
    \E h1, h2 \in Handlers :
        /\ RacingPair(h1, h2)
        /\ ret[h1].result = "Ok"
        /\ ret[h2].result = "NoToken"

\* Handlers whose register was made while no user existed.
CalledOnEmpty == {h \in Handlers : Replied(h, "register") /\ ~span[h].nonEmpty}

\* C4: of any number of concurrent registers against an empty user set, at
\* most one observes the empty set and at most one is granted owner.
C4_RaceOnEmpty ==
    /\ Cardinality({h \in CalledOnEmpty : ret[h].users_empty}) <= 1
    /\ Cardinality({h \in CalledOnEmpty : ret[h].roles = OwnerRoles}) <= 1
    /\ Cardinality({u \in users : u.roles = OwnerRoles}) <= 1
    /\ \A h \in CalledOnEmpty :
           ~ret[h].users_empty /\ ret[h].result = "Ok" =>
               /\ ret[h].roles = UserRoles
               /\ ret[h].claimed_invite = req[h].invite_token

\* every handler was called on the empty set and has replied; one is the owner
C4_Witness ==
    /\ CalledOnEmpty = Handlers
    /\ \E h \in Handlers : ret[h].result = "Ok" /\ ret[h].roles = OwnerRoles

OpenTx == {h \in Handlers : tx[h].open}

\* C5: at most one write transaction is open at any time: whoever has one open
\* holds the writer lock, from before the transaction opens until it is
\* committed or dropped, and the tables change only in the step that ends the
\* lock holder's transaction.
C5_SingleWriter ==
    /\ [](Cardinality(OpenTx) <= 1 /\ \A h \in OpenTx : writer = h)
    /\ [][ \A h \in Handlers :
             /\ (tx'[h].open /\ ~tx[h].open) => (writer = 0 /\ writer' = h)
             /\ (users' # users \/ invites' # invites) =>
                    \E g \in Handlers : writer = g /\ tx[g].open /\ ~tx'[g].open
         ]_vars

\* one handler has a write transaction open while another waits for the lock
C5_Witness ==
    \E h1, h2 \in Handlers :
        /\ tx[h1].open /\ writer = h1
        /\ pc[h2] = "called"

ClaimedInvites(rows) == {u.claimed_invite : u \in rows}

\* C6: every user row references exactly one invite id that was generated, no
\* invite id is referenced by more than one user, and a step that neither adds
\* nor removes a user leaves the references as they were.
C6_OneInvitePerUser ==
    /\ [](/\ \A u \in users : u.claimed_invite \in 1..(next_invite - 1)
          /\ \A u1, u2 \in users : u1.claimed_invite = u2.claimed_invite => u1 = u2)
    /\ [][Cardinality(users') = Cardinality(users) =>
              ClaimedInvites(users') = ClaimedInvites(users)]_vars

\* two users, the second registered with an invite token
C6_Witness ==
    /\ Cardinality(users) = 2
    /\ \E h \in Handlers : Replied(h, "register") /\ ret[h].result = "Ok"
                           /\ ~ret[h].pre.users_empty

\* C7: an invite token consumed by one successful registration is never
\* accepted by a later registration.
C7_TokenConsumedOnce ==
    \A h \in Handlers :
        Replied(h, "register") /\ ret[h].result = "Ok" /\ ~ret[h].pre.users_empty
            => ~ret[h].pre.reuse

\* C8: usernames are unique among users; a register or a rename whose target
\* username belongs to a user fails (the rename with UsernameNotAvailable)
\* and changes nothing.
C8_UniqueUsernames ==
    /\ \A u1, u2 \in users : u1.username = u2.username => u1 = u2
    /\ \A h \in Handlers :
        ( /\ pc[h] = "done"
          /\ req[h].op \in {"register", "user_change_username"}
          /\ ret[h].pre.taken ) =>
            /\ ret[h].result # "Ok"
            /\ ~ret[h].changed
            /\ req[h].op = "user_change_username" =>
                   ret[h].result = "UsernameNotAvailable"

\* a user's rename to the username of another user has been refused
C8_Witness ==
    \E h \in Handlers :
        /\ Replied(h, "user_change_username")
        /\ req[h].new_username # req[h].claims.user
        /\ User_get(db, req[h].claims.user) # {}
        /\ User_get(db, req[h].new_username) # {}
        /\ ret[h].result = "UsernameNotAvailable"

\* C9 as stated: once a first account has been created, every account creation
\* by any path consumes a token supplied by the caller.
C9_EveryCreationConsumesSupplied ==
    \A h \in Handlers :
        Created(h) /\ ~ret[h].pre.first =>
            /\ req[h].invite_token # None
            /\ ret[h].claimed_invite = req[h].invite_token

\* C9: while at least one user exists, every register that creates an account
\* consumes the token its caller supplied, which existed and was unclaimed; an
\* account is created without consuming a supplied token only by a register
\* that finds no users or by headers_login.
C9_GatedCreationConsumesSupplied ==
    \A h \in Handlers :
        Created(h) =>
            /\ req[h].op \in {"register", "headers_login"}
            /\ (req[h].op = "register" /\ ~ret[h].pre.users_empty) =>
                   /\ req[h].invite_token # None
                   /\ ret[h].claimed_invite = req[h].invite_token
                   /\ ret[h].pre.tokenState = "open"
                   /\ ret[h].claimed_invite[1] \in consumedTokens
            /\ ret[h].claimed_invite # req[h].invite_token =>
                   \/ req[h].op = "headers_login"
                   \/ req[h].op = "register" /\ ret[h].pre.users_empty

\* a gated register has created an account with the token supplied
C9_Witness ==
    \E h \in Handlers :
        /\ Created(h)
        /\ req[h].op = "register"
        /\ ~ret[h].pre.users_empty
        /\ ret[h].claimed_invite = req[h].invite_token

\* C10: a user created while no users exist, by any path, is granted owner.
C10_FirstUserIsOwner ==
    \A h \in Handlers :
        Created(h) /\ ret[h].pre.users_empty => ret[h].roles = OwnerRoles

\* C11: with forwarded auth enabled, headers_login for a username that has no
\* user creates exactly one user and one invite; for a username that has a
\* user it creates neither (so a second call in sequence changes nothing);
\* either way one user has that username afterwards and the call returns a
\* token for that user.
C11_ForwardedLoginIdempotent ==
    \A h \in Handlers :
        Replied(h, "headers_login") /\ forwarded_user_auth =>
            LET was == {u \in ret[h].pre.users : u.username = req[h].username}
                now == User_get(db, req[h].username)
            IN  /\ ret[h].result = "Ok"
                /\ Cardinality(now) = 1
                /\ \E u \in now : ret[h].token = jwt_generate(u.username, u.roles)
                /\ was # {} =>
                       /\ users = ret[h].pre.users
                       /\ invites = ret[h].pre.invites
                       /\ next_invite = ret[h].pre.next_invite
                       /\ ret[h].roles = <<>>
                /\ was = {} =>
                       /\ users = ret[h].pre.users \cup now
                       /\ invites = ret[h].pre.invites \cup {ret[h].claimed_invite[1]}
                       /\ ret[h].claimed_invite[1] \notin ret[h].pre.invites

\* a second headers_login for a user that a first headers_login created
C11_Witness ==
    \E h \in Handlers :
        /\ Replied(h, "headers_login")
        /\ \E u \in ret[h].pre.users : /\ u.username = req[h].username
                                       /\ u.password = hash("random")
        /\ ret[h].result = "Ok"
        /\ ret[h].token = jwt_generate(req[h].username, UserRoles)

\* Two headers_login calls for the same username, both made while no user had it.
ForwardedPair(h1, h2) ==
    /\ h1 # h2
    /\ Replied(h1, "headers_login") /\ Replied(h2, "headers_login")
    /\ req[h1].username = req[h2].username
    /\ span[h1].nameFree /\ span[h2].nameFree

\* The headers_login calls that created the user of that username.
ForwardedCreators(username) ==
    {h \in Handlers : /\ Replied(h, "headers_login")
                      /\ req[h].username = username
                      /\ ret[h].roles # <<>>}

\* C12: of the concurrent headers_login calls for the same not-yet-existing
\* username exactly one creates the user, every other finds it, and one user
\* with that username is persisted.
C12_ForwardedRace ==
    \A h1, h2 \in Handlers :
        ForwardedPair(h1, h2) =>
            /\ Cardinality(User_get(db, req[h1].username)) = 1
            /\ ret[h1].result = "Ok" /\ ret[h2].result = "Ok"
            /\ Cardinality(ForwardedCreators(req[h1].username)) = 1
            /\ ret[h1].token = ret[h2].token

\* a forwarded pair has been decided: the first created, the second found it
C12_Witness ==
    \E h1, h2 \in Handlers :
        /\ ForwardedPair(h1, h2)
        /\ ret[h1].roles = UserRoles
        /\ ret[h2].roles = <<>>

\* C13: with the forwarded-auth setting off, every headers_login fails with
\* ForwardAuthDisabled, issues no token and creates no user and no invite,
\* whether or not the username has a user.
C13_ForwardAuthDisabled ==
    \A h \in Handlers :
        Replied(h, "headers_login") /\ ~forwarded_user_auth =>
            /\ ret[h].result = "ForwardAuthDisabled"
            /\ ret[h].token = NoClaims
            /\ ret[h].token \notin tokens
            /\ users = ret[h].pre.users
            /\ invites = ret[h].pre.invites
            /\ next_invite = ret[h].pre.next_invite

\* a refused headers_login for a username that has a user
C13_Witness ==
    \E h \in Handlers :
        /\ Replied(h, "headers_login")
        /\ ~forwarded_user_auth
        /\ User_get(db, req[h].username) # {}
        /\ ret[h].result = "ForwardAuthDisabled"

\* The acting user's rows before the call of h, and whether the password h
\* presented is the one stored there.
ActingBefore(h) == {u \in ret[h].pre.users : u.username = req[h].claims.user}
PasswordMatches(h) == \E u \in ActingBefore(h) : u.password = hash(req[h].password)

\* C14: user_delete_self with a password that is not the acting user's stored
\* one fails with InvalidCredentials and leaves every user and invite; with
\* the right password exactly the acting user's row is removed.
C14_DeleteSelfReverifies ==
    \A h \in Handlers :
        Replied(h, "user_delete_self") =>
            IF PasswordMatches(h)
            THEN /\ ret[h].result = "Ok"
                 /\ users = ret[h].pre.users \ ActingBefore(h)
                 /\ invites = ret[h].pre.invites
            ELSE /\ ret[h].result = "InvalidCredentials"
                 /\ users = ret[h].pre.users
                 /\ invites = ret[h].pre.invites

\* a user that exists has tried to delete itself with a wrong password
C14_Witness ==
    \E h \in Handlers :
        /\ Replied(h, "user_delete_self")
        /\ ActingBefore(h) # {}
        /\ ~PasswordMatches(h)
        /\ ret[h].result = "InvalidCredentials"
        /\ ActingBefore(h) \subseteq users

\* C15: user_change_password with an old password that is not the acting
\* user's stored one fails with InvalidCredentials and changes nothing; with
\* the right one the stored credential becomes the new password and nothing
\* else of any row changes.
C15_ChangePasswordReverifies ==
    \A h \in Handlers :
        Replied(h, "user_change_password") =>
            IF PasswordMatches(h)
            THEN /\ ret[h].result = "Ok"
                 /\ users = (ret[h].pre.users \ ActingBefore(h)) \cup
                            {[u EXCEPT !.password = hash(req[h].new_password)] :
                                u \in ActingBefore(h)}
                 /\ invites = ret[h].pre.invites
            ELSE /\ ret[h].result = "InvalidCredentials"
                 /\ users = ret[h].pre.users
                 /\ invites = ret[h].pre.invites

\* a user that exists has tried to change its password with a wrong old one
C15_Witness ==
    \E h \in Handlers :
        /\ Replied(h, "user_change_password")
        /\ ActingBefore(h) # {}
        /\ ~PasswordMatches(h)
        /\ ret[h].result = "InvalidCredentials"

\* C16: get_all_invites, generate_invite and delete_invite with claims that
\* lack the owner role fail with Unauthorized and change neither table.
C16_OwnerOnly ==
    \A h \in Handlers :
        ( /\ pc[h] = "done"
          /\ req[h].op \in {"get_all_invites", "generate_invite", "delete_invite"}
          /\ \A i \in DOMAIN req[h].claims.roles : req[h].claims.roles[i] # "owner" ) =>
            /\ ret[h].result = "Unauthorized"
            /\ ret[h].invite = None
            /\ ret[h].rows = {}
            /\ users = ret[h].pre.users
            /\ invites = ret[h].pre.invites
            /\ next_invite = ret[h].pre.next_invite

\* a user without the owner role has tried to delete an invite that exists
C16_Witness ==
    \E h \in Handlers :
        /\ Replied(h, "delete_invite")
        /\ req[h].claims.roles = UserRoles
        /\ req[h].token \in invites
        /\ ret[h].result = "Unauthorized"

\* The persisted rows whose username and stored credential are those of the
\* login request of h.
LoginMatches(h) == {u \in users : /\ u.username = req[h].username
                                  /\ u.password = hash(req[h].password)}

\* C17: login returns a token exactly when a user of that username is
\* persisted and the password is the one stored for it now; the token carries
\* that user's username and roles; otherwise it fails with InvalidCredentials;
\* it never changes the tables.
C17_LoginVerifiesCurrentCredential ==
    \A h \in Handlers :
        Replied(h, "login") =>
            /\ LoginMatches(h) # {} =>
                   /\ ret[h].result = "Ok"
                   /\ \E u \in LoginMatches(h) :
                          ret[h].token = [user |-> u.username, roles |-> u.roles]
            /\ LoginMatches(h) = {} =>
                   /\ ret[h].result = "InvalidCredentials"
                   /\ ret[h].token = NoClaims
            /\ users = ret[h].pre.users
            /\ invites = ret[h].pre.invites

\* after a password change, a login with the old password has been refused
C17_Witness ==
    \E h \in Handlers :
        /\ Replied(h, "login")
        /\ req[h].password \in InitialPasswords
        /\ \E u \in users : /\ u.username = req[h].username
                            /\ u.password \in {hash(p) : p \in NewPasswords}
        /\ ret[h].result = "InvalidCredentials"

\* C18: while at least one user exists, a register with a token that names an
\* existing unclaimed invite and with an unused username succeeds; the new
\* user has the role set {user} and claims the submitted token, which no
\* longer is valid and unclaimed.
C18_GatedRegisterSucceeds ==
    \A h \in Handlers :
        ( /\ Replied(h, "register")
          /\ ~ret[h].pre.users_empty
          /\ ret[h].pre.tokenState = "open"
          /\ ~ret[h].pre.taken ) =>
            /\ ret[h].result = "Ok"
            /\ ret[h].roles = UserRoles
            /\ ret[h].claimed_invite = req[h].invite_token
            /\ users = ret[h].pre.users \cup {RowOf(h)}
            /\ invites = ret[h].pre.invites
            /\ ~invite_token_valid(db, req[h].invite_token)

\* a gated register with an open token and a free username has replied
C18_Witness ==
    \E h \in Handlers :
        /\ Replied(h, "register")
        /\ ~ret[h].pre.users_empty
        /\ ret[h].pre.tokenState = "open"
        /\ ~ret[h].pre.taken
        /\ RowOf(h) \in users

\* C19: a handler that replies with an error leaves the persisted users and
\* invites exactly as they were before: a gated register that fails on its
\* username does not consume its invite, and a bootstrap or forwarded-auth
\* creation whose insert fails leaves no synthesized invite behind.
C19_ErrorLeavesNoEffect ==
    \A h \in Handlers :
        pc[h] = "done" /\ ret[h].result # "Ok" =>
            /\ users = ret[h].pre.users
            /\ invites = ret[h].pre.invites
            /\ (req[h].op = "register" /\ ret[h].pre.tokenState = "open") =>
                   invite_token_valid(db, req[h].invite_token)
            /\ next_invite = ret[h].pre.next_invite

\* a bootstrap register that had synthesized its invite has failed on its
\* insert, with invites persisted from before
C19_Witness ==
    \E h \in Handlers :
        /\ Replied(h, "register")
        /\ ret[h].pre.users_empty
        /\ ret[h].result = "DatabaseError"
        /\ invites # {}

\* The run's bounds keep the request of h from starting its transaction.
BoundReached(h) ==
    \/ commitsLeft = 0
    \/ NeedsFreshInvite(req[h]) /\ next_invite > MaxInvites

\* C20: the writer lock is held only by a handler inside its transaction, so
\* every return (success, NoToken, InvalidCredentials, UsernameNotAvailable,
\* the forwarded 'exists' return) has released it; under fair scheduling a
\* holder releases the lock and a handler waiting for it acquires it, unless
\* the run's bounds stop it.
C20_LockReleased ==
    /\ [](\A h \in Handlers : writer = h <=> pc[h] = "open")
    /\ \A h \in Pool : (writer = h) ~> (writer # h)
    /\ \A h \in Pool : (pc[h] = "called") ~> (pc[h] = "open" \/ BoundReached(h))

\* a handler waits for the lock while the other, about to return from the
\* forwarded 'exists' branch, holds it
C20_Witness ==
    \E h1, h2 \in Handlers :
        /\ pc[h1] = "called" /\ ~BoundReached(h1)
        /\ writer = h2
        /\ req[h2].op = "headers_login"
        /\ User_get(tx[h2], req[h2].username) # {}

\* A call that has returned and whose library exists.
Returned(c) == mpc[c] = "done" /\ library_found(mreq[c].library_id)
RowsNamed(t, name) == {m \in t : m.name = name}

C22_InsertOrGet ==
    /\ \A c \in Callers :
        mpc[c] = "done" /\ mret[c].result = "Ok" =>
            LET matching == RowsNamed(mret[c].pre, mreq[c].name)
            IN  IF matching # {}
                THEN /\ mret[c].id \in {m.id : m \in matching}
                     /\ mret[c].post = mret[c].pre
                ELSE /\ mret[c].post = mret[c].pre \cup {MediaRow(mret[c].id, mreq[c])}
                     /\ \A m \in mret[c].pre : m.id # mret[c].id
    /\ \A c, d \in Callers :
        /\ c # d
        /\ mpc[c] = "done" /\ mret[c].result = "Ok"
        /\ mpc[d] = "done" /\ mret[d].result = "Ok"
        /\ mreq[c] = mreq[d]
        => /\ mret[c].id = mret[d].id
           /\ ~(mret[c].inserted /\ mret[d].inserted)

C22_Witness ==
    \E c, d \in Callers :
        /\ c # d
        /\ mpc[c] = "done" /\ mret[c].result = "Ok" /\ mret[c].inserted
        /\ mpc[d] = "done" /\ mret[d].result = "Ok" /\ ~mret[d].inserted
        /\ mreq[c] = mreq[d]
        /\ mret[d].pre = mret[c].post
        /\ mret[d].post = mret[c].post
        /\ mret[d].id = mret[c].id
        /\ mret[d].attempts = 1

\* What retry_while has done so far for every caller: no more attempts than
\* the bound, every failure that was followed by another attempt a
\* serialization failure, a write conflict returned only when every attempt
\* up to the bound failed so, any other failure returned by the attempt that
\* met it.
AllSerialization(failures) ==
    \A i \in 1..Len(failures) : failures[i] = "SerializationFailure"
Front(failures) == SubSeq(failures, 1, Len(failures) - 1)

RetryBounded ==
    \A c \in Callers :
        /\ mtx[c].attempt <= MaxAttempts
        /\ AllSerialization(mtx[c].failures)
        /\ mpc[c] = "done" /\ mret[c].result = "WriteConflict" =>
              /\ mret[c].attempts = MaxAttempts
              /\ Len(mret[c].failures) = MaxAttempts
              /\ AllSerialization(mret[c].failures)
        /\ mpc[c] = "done" /\ mret[c].result = "DatabaseError" =>
              /\ Len(mret[c].failures) = mret[c].attempts
              /\ AllSerialization(Front(mret[c].failures))
              /\ mret[c].failures[Len(mret[c].failures)] # "SerializationFailure"

\* C23: insert and insert_blind run their transaction at most MaxAttempts
\* times: a call whose every attempt met a serialization failure returns a
\* write conflict after the last one, a failure of another kind is returned by
\* the attempt that met it, and every call returns, even when the storage
\* fails every attempt.
C23_BoundedRetry ==
    /\ []RetryBounded
    /\ \A c \in Callers : (mpc[c] # "idle") ~> (mpc[c] = "done")

C23_Witness ==
    \E c, d \in Callers :
        /\ mpc[c] = "done" /\ mret[c].result = "WriteConflict"
        /\ mret[c].attempts = MaxAttempts
        /\ mpc[d] = "done" /\ mret[d].result = "DatabaseError"
        /\ mreq[d].op = "insert_blind"
        /\ mret[d].attempts = 1

\* The operations that write nothing: login, get_all_invites, and a forwarded
\* login whose user already exists.
ReadOnly(h) ==
    \/ req[h].op \in {"login", "get_all_invites"}
    \/ req[h].op = "headers_login" /\ User_get(db, req[h].username) # {}

\* C24: a handler serving a read-only operation (login, get_all_invites, the
\* forwarded login of a user that already exists) never holds the writer lock.
C24_ReadersTakeNoLock ==
    \A h \in Handlers : writer = h => ~ReadOnly(h)

\* C25: delete_invite called by an owner for a token that is not in the
\* invites table fails with NotFound and leaves users and invites as they were;
\* for a token that is in the table it succeeds and removes that invite and
\* nothing else.
C25_DeleteInvite ==
    \A h \in Handlers :
        Replied(h, "delete_invite") /\ has_role(req[h].claims, "owner") =>
            /\ users = ret[h].pre.users
            /\ IF req[h].token \in ret[h].pre.invites
               THEN /\ ret[h].result = "Ok"
                    /\ invites = ret[h].pre.invites \ {req[h].token}
               ELSE /\ ret[h].result = "NotFound"
                    /\ invites = ret[h].pre.invites

\* an owner has tried to delete a token that does not exist while other
\* invites do
C25_Witness ==
    \E h \in Handlers :
        /\ Replied(h, "delete_invite") /\ has_role(req[h].claims, "owner")
        /\ req[h].token \notin ret[h].pre.invites
        /\ ret[h].pre.invites # {}
        /\ ret[h].result = "NotFound"

\* Two rows of a listing are in the same group: both unclaimed or both claimed.
SameGroup(r1, r2) == (r1.claimed_by = None) <=> (r2.claimed_by = None)

\* C26: in the list get_all_invites returns, the unclaimed invites are in
\* ascending order of creation among themselves, and so are the claimed ones.
C26_ListedByCreation ==
    \A h \in Handlers :
        Replied(h, "get_all_invites") /\ ret[h].result = "Ok" =>
            \A i, j \in DOMAIN ret[h].list :
                i < j /\ SameGroup(ret[h].list[i], ret[h].list[j]) =>
                    created(ret[h].list[i]) < created(ret[h].list[j])

\* C27: every headers_login that succeeds, whether it found the user or
\* created it, replies with a Set-Cookie header that sets the cookie `token`
\* to a token issued for the forwarded username.
C27_ForwardedLoginSetsCookie ==
    \A h \in Handlers :
        Replied(h, "headers_login") /\ ret[h].result = "Ok" =>
            /\ ret[h].header.name = "Set-Cookie"
            /\ Len(ret[h].header.value) = 2
            /\ ret[h].header.value[1] = "token"
            /\ ret[h].header.value[2].user = req[h].username

\* C28: the invite id every persisted user claims is the id of an invite in
\* the invites table.
C28_ClaimedInviteExists ==
    \A u \in users : u.claimed_invite \in invites

\* The persisted users, at the time h acted, that bear the username of h's
\* token and hold the owner role.
OwnerBehind(h) ==
    {u \in ActingBefore(h) : \E i \in DOMAIN u.roles : u.roles[i] = "owner"}

\* C29: every generate_invite, delete_invite and get_all_invites that succeeds
\* acts for a username that, at that moment, is a persisted user with the owner
\* role.
C29_InviteOpsByCurrentOwner ==
    \A h \in Handlers :
        ( /\ pc[h] = "done"
          /\ req[h].op \in {"generate_invite", "delete_invite", "get_all_invites"}
          /\ ret[h].result = "Ok" ) => OwnerBehind(h) # {}

\* h has changed an account on the strength of its token alone or with a
\* password: a password change, a rename or a self-deletion that succeeded.
SelfMutated(h) ==
    /\ pc[h] = "done"
    /\ req[h].op \in {"user_change_username", "user_change_password", "user_delete_self"}
    /\ ret[h].result = "Ok"

\* C30: a self-mutating operation changes only the account its token was
\* issued to.  Every token in these runs was issued before the run began, so
\* no operation may act on an account that a register created during the run,
\* even one that has taken the username the token names.
C30_TokenBoundToAccount ==
    \A h, g \in Handlers :
        SelfMutated(h) /\ Created(g) => RowOf(g) \notin ActingBefore(h)

\* The persisted users that hold the owner role.
Owners == {u \in users : \E i \in DOMAIN u.roles : u.roles[i] = "owner"}

\* C31: at most one persisted user holds the owner role, whatever registers,
\* forwarded logins, renames and self-deletions have run and in whatever order.
C31_AtMostOneOwner == Cardinality(Owners) <= 1

\* an owner registered after an earlier account had been created and deleted
\* (it claims the second invite ever generated), beside no other owner
C31_Witness ==
    /\ everCreated
    /\ \E u \in Owners : u.claimed_invite = 2
    /\ Cardinality(Owners) = 1

\* C32: the id a successful insert returns is the id of a media row in the
\* library of the inserted value.
C32_ReturnedRowInLibrary ==
    \A c \in Callers :
        mpc[c] = "done" /\ mreq[c].op = "insert" /\ mret[c].result = "Ok" =>
            \E m \in media : /\ m.id = mret[c].id
                              /\ m.library_id = mreq[c].library_id

====
